---- MODULE Spec2Model ----
(***************************************************************************)
(* D4Counting: splitting types of D4 fields.                               *)
(*                                                                         *)
(* The core (d4counting/splitting_types.py) works on sympy permutations of *)
(* {0,1,2,3}: get_cosets, get_orbits, compute_inertia, write_inertia.  The *)
(* command `splitting` (d4counting/cli.py) runs that pipeline for each of  *)
(* the 18 (inertia group, decomposition group) rows and each of the seven  *)
(* groups of gal_groups.                                                   *)
(*                                                                         *)
(* A permutation is modelled by its array form, the tuple of the images of *)
(* 0,1,2,3 (a TLA+ tuple is indexed from 1, so the image of i is p[i+1]).  *)
(* A frozenset is a set.  The iteration order over a frozenset is not      *)
(* fixed by the language, so the loop of compute_inertia takes the orbits  *)
(* in any order and next(iter(suborbits)) is any sub-orbit.                *)
(***************************************************************************)
EXTENDS Integers, Sequences, FiniteSets, TLC

VARIABLES
    pc,                  \* position of the caller in the pipeline
    row_num,             \* cli.py: row of the table, from 0
    gal_num,             \* cli.py: position in gal_groups, from 1
    big_galois,          \* the group whose cosets are taken
    galois_group,        \* the subgroup H (small_galois)
    decomposition_group, \* the group acting on the cosets
    inertia_group,       \* the group acting on each decomposition orbit
    cosets,              \* result of get_cosets
    orbits,              \* result of get_orbits
    todo,                \* compute_inertia: orbits the for loop has not taken yet
    inertia,             \* the list object built by compute_inertia
    passed,              \* the content of that list when write_inertia was called
    out,                 \* the string write_inertia returned
    to_print,            \* cli.py: the cells of the current row
    func_num,            \* expected_number.compute: position in the tuple of functions
    output,              \* the list the current function returned
    idx,                 \* position of the inner for loop in that list, from 1
    outcomes             \* the defaultdict(int), as a function on the keys it holds

vars == << pc, row_num, gal_num, big_galois, galois_group, decomposition_group,
           inertia_group, cosets, orbits, todo, inertia, passed, out, to_print,
           func_num, output, idx, outcomes >>

\* The variables of the command `splitting`, but for pc
splitting_vars == << row_num, gal_num, big_galois, galois_group, decomposition_group,
                     inertia_group, cosets, orbits, todo, inertia, passed, out, to_print >>

\* The variables of the command `expectation`, but for pc
expectation_vars == << func_num, output, idx, outcomes >>

\* The command `expectation` has not been started
ExpectationIdle ==
    /\ func_num = 1
    /\ output = << >>
    /\ idx = 1
    /\ outcomes = << >>

-----------------------------------------------------------------------------
(* Bounds of the checked input spaces *)

\* write_inertia is applied to every list of at most MaxLen pairs ...
MaxLen == 3
\* ... with f and e in 1..MaxVal
MaxVal == 3
\* get_orbits is applied to every set of at most MaxPoints points ...
MaxPoints == 2
\* ... each point a non-empty set of at most MaxCosetSize permutations of D4
MaxCosetSize == 2

-----------------------------------------------------------------------------
(* sympy permutations *)

\* Size of the ground set {0,1,2,3}
Size == 4

\* p * q in sympy: apply p first, then q: (p*q)(i) = q(p(i))
Mul(p, q) == [i \in 1..Size |-> q[p[i] + 1]]

iota == <<0, 1, 2, 3>>
sigma == <<1, 2, 3, 0>>
tau == <<1, 0, 3, 2>>

RECURSIVE Pow(_, _)
Pow(p, n) == IF n = 0 THEN iota ELSE Mul(Pow(p, n - 1), p)

-----------------------------------------------------------------------------
(* The groups *)

GaloisGroup(g, name) == [group |-> g, latex_name |-> name]

\* GaloisGroup.__iter__ iterates the tuple `group`
Elems(G) == {G.group[i] : i \in DOMAIN G.group}

D4 == GaloisGroup(<< iota, sigma, Pow(sigma, 2), Pow(sigma, 3), tau, Mul(sigma, tau),
                     Mul(Pow(sigma, 2), tau), Mul(Pow(sigma, 3), tau) >>, "D_4")

Gal_M_M == GaloisGroup(<< iota >>, "\\{1\\}")
Gal_M_L1 == GaloisGroup(<< iota, tau >>, "\\langle \\tau \\rangle")
Gal_M_L1_prime == GaloisGroup(<< iota, Mul(Pow(sigma, 2), tau) >>,
                              "\\langle \\sigma^2 \\tau \\rangle")
Gal_M_L2 == GaloisGroup(<< iota, Mul(sigma, tau) >>, "\\langle \\sigma \\tau \\rangle")
Gal_M_L2_prime == GaloisGroup(<< iota, Mul(Pow(sigma, 3), tau) >>,
                              "\\langle \\sigma^3 \\tau \\rangle")
Gal_M_L == GaloisGroup(<< iota, Pow(sigma, 2) >>, "\\langle \\sigma^2 \\rangle")
Gal_M_K1 == GaloisGroup(<< iota, tau, Pow(sigma, 2), Mul(Pow(sigma, 2), tau) >>,
                        "\\langle \\tau, \\sigma^2 \\rangle")
Gal_M_K2 == GaloisGroup(<< iota, Mul(sigma, tau), Pow(sigma, 2), Mul(Pow(sigma, 3), tau) >>,
                        "\\langle \\sigma \\tau, \\sigma^2 \\rangle")
Gal_M_K == GaloisGroup(<< iota, sigma, Pow(sigma, 2), Pow(sigma, 3) >>,
                       "\\langle \\sigma \\rangle")

\* D4 and the nine subgroups of splitting_types.main
Catalogue == { Gal_M_M, Gal_M_L1, Gal_M_L1_prime, Gal_M_L2, Gal_M_L2_prime,
               Gal_M_L, Gal_M_K1, Gal_M_K2, Gal_M_K, D4 }

\* cli.py: the groups of the table's columns
gal_groups == << Gal_M_M, Gal_M_L1, Gal_M_K1, Gal_M_L2, Gal_M_K2, Gal_M_L, Gal_M_K >>

\* inertia_groups with two neighbouring entries exchanged: <sigma tau> stands
\* against <tau, sigma^2> and <tau> against <sigma tau>
inertia_groups_misaligned == <<
    Gal_M_M, Gal_M_M, Gal_M_M, Gal_M_M, Gal_M_M,
    Gal_M_L1, Gal_M_L2, Gal_M_L1, Gal_M_L2,
    Gal_M_K, Gal_M_K, Gal_M_L, Gal_M_L, Gal_M_L, Gal_M_L,
    Gal_M_K1, Gal_M_K2, D4 >>

inertia_groups == <<
    Gal_M_M, Gal_M_M, Gal_M_M, Gal_M_M, Gal_M_M,
    Gal_M_L1, Gal_M_L1, Gal_M_L2, Gal_M_L2,
    Gal_M_K, Gal_M_K, Gal_M_L, Gal_M_L, Gal_M_L, Gal_M_L,
    Gal_M_K1, Gal_M_K2, D4 >>

decomposition_groups == <<
    Gal_M_M, Gal_M_L, Gal_M_L2, Gal_M_L1, Gal_M_K,
    Gal_M_L1, Gal_M_K1, Gal_M_L2, Gal_M_K2,
    Gal_M_K, D4, Gal_M_L, Gal_M_K1, Gal_M_K2, Gal_M_K,
    Gal_M_K1, Gal_M_K2, D4 >>

-----------------------------------------------------------------------------
(* The core: splitting_types.py *)

\* get_cosets with the two generators exchanged: one set per h, over all g
get_cosets_swapped(big, small) ==
    { { Mul(h, g) : g \in Elems(big) } : h \in Elems(small) }

\* get_cosets without the inner frozenset: every product a set of its own
get_cosets_flat(big, small) ==
    { { Mul(h, g) } : h \in Elems(small), g \in Elems(big) }

\* get_cosets with the product's operands exchanged: g * h for h * g
get_cosets_left(big, small) ==
    { { Mul(g, h) : h \in Elems(small) } : g \in Elems(big) }

\* frozenset(frozenset(h * g for h in small_galois) for g in big_galois)
get_cosets(big, small) ==
    { { Mul(h, g) : h \in Elems(small) } : g \in Elems(big) }

\* get_orbits with the product's operands exchanged: g * h for h * g
get_orbits_left(cs, group) ==
    { { { Mul(g, h) : h \in coset } : g \in Elems(group) } : coset \in cs }

\* get_orbits with the outer loop folded into the inner one: a single orbit
get_orbits_merged(cs, group) ==
    { { { Mul(h, g) : h \in coset } : g \in Elems(group), coset \in cs } }

\* frozenset(frozenset(frozenset(h * g for h in coset) for g in group)
\*           for coset in cosets)
get_orbits(cs, group) ==
    { { { Mul(h, g) : h \in coset } : g \in Elems(group) } : coset \in cs }

\* The key without its second member: sorted by f alone
SortKey_f_only(x) == << x[1], 0 >>

\* The key without the minus sign: ties broken by ascending e
SortKey_ascending(x) == << x[1], x[2] >>

\* The sort key of write_inertia: lambda x: (x[0], -x[1])
SortKey(x) == << x[1], -x[2] >>

\* Python's order on tuples of two integers
TupleLess(a, b) == a[1] < b[1] \/ (a[1] = b[1] /\ a[2] < b[2])

\* x put into the sorted list s behind every element whose key is not greater
\* (list.sort is stable)
RECURSIVE InsertByKey(_, _)
InsertByKey(x, s) ==
    IF s = << >> THEN << x >>
    ELSE IF TupleLess(SortKey(x), SortKey(s[Len(s)]))
         THEN Append(InsertByKey(x, SubSeq(s, 1, Len(s) - 1)), s[Len(s)])
         ELSE Append(s, x)

\* inertia.sort(key=lambda x: (x[0], -x[1]))
RECURSIVE SortInertia(_)
SortInertia(s) ==
    IF s = << >> THEN << >>
    ELSE InsertByKey(s[Len(s)], SortInertia(SubSeq(s, 1, Len(s) - 1)))

\* The element without its condition: "f^e" whatever e is
Elt_always_power(x) == ToString(x[1]) \o "^" \o ToString(x[2])

\* f"{f}^{e}" if e > 1 else f"{f}"
Elt(x) == IF x[2] > 1 THEN ToString(x[1]) \o "^" \o ToString(x[2]) ELSE ToString(x[1])

\* " ".join(elts)
RECURSIVE Join(_)
Join(elts) ==
    IF elts = << >> THEN ""
    ELSE IF Len(elts) = 1 THEN elts[1]
    ELSE Join(SubSeq(elts, 1, Len(elts) - 1)) \o " " \o elts[Len(elts)]

\* The string write_inertia returns for the list s
write_inertia(s) ==
    LET sorted == SortInertia(s)
        elts == [i \in 1..Len(sorted) |-> Elt(sorted[i])]
    IN  "(" \o Join(elts) \o ")"

-----------------------------------------------------------------------------
(* The steps of the pipeline *)

\* cosets = splitting_types.get_cosets(D4, galois_group)
GetCosets ==
    /\ pc = "start"
    /\ cosets' = get_cosets(big_galois, galois_group)
    /\ pc' = "have_cosets"
    /\ UNCHANGED << row_num, gal_num, big_galois, galois_group, decomposition_group,
                    inertia_group, orbits, todo, inertia, passed, out, to_print >>
    /\ UNCHANGED expectation_vars

\* orbits = splitting_types.get_orbits(cosets, decomposition_group)
GetOrbits ==
    /\ pc = "have_cosets"
    /\ orbits' = get_orbits(cosets, decomposition_group)
    /\ pc' = "have_orbits"
    /\ UNCHANGED << row_num, gal_num, big_galois, galois_group, decomposition_group,
                    inertia_group, cosets, todo, inertia, passed, out, to_print >>
    /\ UNCHANGED expectation_vars

\* compute_inertia is entered: inertia = [], the for loop starts
ComputeInertiaEnter ==
    /\ pc = "have_orbits"
    /\ inertia' = << >>
    /\ todo' = orbits
    /\ pc' = "in_compute_inertia"
    /\ UNCHANGED << row_num, gal_num, big_galois, galois_group, decomposition_group,
                    inertia_group, cosets, orbits, passed, out, to_print >>
    /\ UNCHANGED expectation_vars

\* The iteration with the pair's members exchanged: (e, f) for (f, e)
ComputeInertiaStep_swapped ==
    /\ pc = "in_compute_inertia"
    /\ \E orbit \in todo :
         LET suborbits == get_orbits(orbit, inertia_group)
         IN  \E example_orbit \in suborbits :
               /\ inertia' = Append(inertia, << Cardinality(example_orbit),
                                               Cardinality(suborbits) >>)
               /\ todo' = todo \ {orbit}
    /\ UNCHANGED << pc, row_num, gal_num, big_galois, galois_group, decomposition_group,
                    inertia_group, cosets, orbits, passed, out, to_print >>
    /\ UNCHANGED expectation_vars

\* One iteration of the for loop: any orbit not taken yet, any sub-orbit of it
ComputeInertiaStep ==
    /\ pc = "in_compute_inertia"
    /\ \E orbit \in todo :
         LET suborbits == get_orbits(orbit, inertia_group)
         IN  \E example_orbit \in suborbits :
               /\ inertia' = Append(inertia, << Cardinality(suborbits),
                                               Cardinality(example_orbit) >>)
               /\ todo' = todo \ {orbit}
    /\ UNCHANGED << pc, row_num, gal_num, big_galois, galois_group, decomposition_group,
                    inertia_group, cosets, orbits, passed, out, to_print >>
    /\ UNCHANGED expectation_vars

\* `return inertia` indented into the for loop: returns after the first orbit
ComputeInertiaReturn_in_loop ==
    /\ pc = "in_compute_inertia"
    /\ inertia # << >> \/ todo = {}
    /\ pc' = "have_inertia"
    /\ UNCHANGED << row_num, gal_num, big_galois, galois_group, decomposition_group,
                    inertia_group, cosets, orbits, todo, inertia, passed, out, to_print >>
    /\ UNCHANGED expectation_vars

\* The loop is exhausted: return inertia
ComputeInertiaReturn ==
    /\ pc = "in_compute_inertia"
    /\ todo = {}
    /\ pc' = "have_inertia"
    /\ UNCHANGED << row_num, gal_num, big_galois, galois_group, decomposition_group,
                    inertia_group, cosets, orbits, todo, inertia, passed, out, to_print >>
    /\ UNCHANGED expectation_vars

\* splitting_types.write_inertia(inertia): the list is sorted in place, the
\* string is built from the sorted list
WriteInertia ==
    /\ pc = "have_inertia"
    /\ passed' = inertia
    /\ inertia' = SortInertia(inertia)
    /\ out' = write_inertia(inertia)
    /\ pc' = "written"
    /\ UNCHANGED << row_num, gal_num, big_galois, galois_group, decomposition_group,
                    inertia_group, cosets, orbits, todo, to_print >>
    /\ UNCHANGED expectation_vars

\* to_print.append(f"${...}$"), then the next galois_group of the for loop
AppendToPrint ==
    /\ pc = "written"
    /\ to_print' = Append(to_print, "$" \o out \o "$")
    /\ IF gal_num < Len(gal_groups)
       THEN /\ gal_num' = gal_num + 1
            /\ galois_group' = gal_groups[gal_num + 1]
            /\ pc' = "start"
       ELSE /\ pc' = "row_done"
            /\ UNCHANGED << gal_num, galois_group >>
    /\ UNCHANGED << row_num, big_galois, decomposition_group, inertia_group,
                    cosets, orbits, todo, inertia, passed, out >>
    /\ UNCHANGED expectation_vars

\* The row is printed; the outer for loop takes the next row, or ends
NextRow ==
    /\ pc = "row_done"
    /\ IF row_num + 1 < Len(inertia_groups)
       THEN /\ row_num' = row_num + 1
            /\ inertia_group' = inertia_groups[row_num + 2]
            /\ decomposition_group' = decomposition_groups[row_num + 2]
            /\ gal_num' = 1
            /\ galois_group' = gal_groups[1]
            /\ to_print' = << >>
            /\ pc' = "start"
       ELSE /\ pc' = "done"
            /\ UNCHANGED << row_num, inertia_group, decomposition_group, gal_num,
                            galois_group, to_print >>
    /\ UNCHANGED << big_galois, cosets, orbits, todo, inertia, passed, out >>
    /\ UNCHANGED expectation_vars

-----------------------------------------------------------------------------
(* splitting_command *)

Init ==
    /\ pc = "start"
    /\ row_num = 0
    /\ gal_num = 1
    /\ big_galois = D4
    /\ galois_group = gal_groups[1]
    /\ decomposition_group = decomposition_groups[1]
    /\ inertia_group = inertia_groups[1]
    /\ cosets = {}
    /\ orbits = {}
    /\ todo = {}
    /\ inertia = << >>
    /\ passed = << >>
    /\ out = ""
    /\ to_print = << >>
    /\ ExpectationIdle

Next ==
    \/ GetCosets
    \/ GetOrbits
    \/ ComputeInertiaEnter
    \/ ComputeInertiaStep
    \/ ComputeInertiaReturn
    \/ WriteInertia
    \/ AppendToPrint
    \/ NextRow

Spec == Init /\ [][Next]_vars

-----------------------------------------------------------------------------
(* The core applied to the catalogue, as tests/test_splitting_types.py does: *)
(* any group of the catalogue, any of its subgroups, any decomposition group *)
(* in it and any inertia group in that.                                      *)

IsSubset(A, B) == Elems(A) \subseteq Elems(B)

InitCore ==
    /\ pc = "start"
    /\ row_num = 0
    /\ gal_num = 1
    /\ big_galois \in Catalogue
    /\ galois_group \in { H \in Catalogue : IsSubset(H, big_galois) }
    /\ decomposition_group \in { K \in Catalogue : IsSubset(K, big_galois) }
    /\ inertia_group \in { L \in Catalogue : IsSubset(L, decomposition_group) }
    /\ cosets = {}
    /\ orbits = {}
    /\ todo = {}
    /\ inertia = << >>
    /\ passed = << >>
    /\ out = ""
    /\ to_print = << >>
    /\ ExpectationIdle

NextCore ==
    \/ GetCosets
    \/ GetOrbits
    \/ ComputeInertiaEnter
    \/ ComputeInertiaStep
    \/ ComputeInertiaReturn
    \/ WriteInertia

SpecCore == InitCore /\ [][NextCore]_vars

-----------------------------------------------------------------------------
(* get_orbits applied to any small set of points *)

\* A point: a non-empty set of at most MaxCosetSize permutations of D4
Points == { c \in SUBSET Elems(D4) : c # {} /\ Cardinality(c) <= MaxCosetSize }

\* The sets of at most n points
RECURSIVE SetsUpTo(_)
SetsUpTo(n) ==
    IF n = 0 THEN { {} }
    ELSE LET prev == SetsUpTo(n - 1)
         IN  prev \cup { s \cup {p} : s \in prev, p \in Points }

InitOrbits ==
    /\ pc = "have_cosets"
    /\ row_num = 0
    /\ gal_num = 1
    /\ big_galois = D4
    /\ galois_group = Gal_M_M
    /\ decomposition_group \in { Gal_M_M, Gal_M_L }
    /\ inertia_group = Gal_M_M
    /\ cosets \in SetsUpTo(MaxPoints)
    /\ orbits = {}
    /\ todo = {}
    /\ inertia = << >>
    /\ passed = << >>
    /\ out = ""
    /\ to_print = << >>
    /\ ExpectationIdle

NextOrbits == GetOrbits

SpecOrbits == InitOrbits /\ [][NextOrbits]_vars

-----------------------------------------------------------------------------
(* write_inertia applied to any short list of pairs of positive integers *)

InertiaPairs == (1..MaxVal) \X (1..MaxVal)

\* The example of write_inertia's docstring
DocExample == << <<2, 1>>, <<2, 3>>, <<1, 2>>, <<1, 1>> >>

InertiaLists == UNION { [1..n -> InertiaPairs] : n \in 0..MaxLen } \cup { DocExample }

InitFormat ==
    /\ pc = "have_inertia"
    /\ row_num = 0
    /\ gal_num = 1
    /\ big_galois = D4
    /\ galois_group = Gal_M_M
    /\ decomposition_group = Gal_M_M
    /\ inertia_group = Gal_M_M
    /\ cosets = {}
    /\ orbits = {}
    /\ todo = {}
    /\ inertia \in InertiaLists
    /\ passed = << >>
    /\ out = ""
    /\ to_print = << >>
    /\ ExpectationIdle

NextFormat == WriteInertia

SpecFormat == InitFormat /\ [][NextFormat]_vars

-----------------------------------------------------------------------------
(* expected_number.py: the expected number of fields at p = 2               *)
(*                                                                          *)
(* Of each line of the tables the columns the computation reads are kept:   *)
(* the conductor exponent c, the inertia group, the slopes and the          *)
(* discriminant class of the quadratic subfield (do_d4_fields does not read *)
(* the slopes).                                                             *)

C2Field(c, i, sl) == [c |-> c, inertia |-> i, slopes |-> sl]
C4Field(c, i, sl, sub) == [c |-> c, inertia |-> i, slopes |-> sl, deg2_subfield |-> sub]
V4Field(c, i, sl) == [c |-> c, inertia |-> i, slopes |-> sl]
D4Field(c, i, sub) == [c |-> c, inertia |-> i, deg2_subfield |-> sub]

c2_fields == <<
    C2Field(0, "unram", << >>),
    C2Field(2, "C2", << 2 >>),
    C2Field(2, "C2", << 2 >>),
    C2Field(3, "C2", << 3 >>),
    C2Field(3, "C2", << 3 >>),
    C2Field(3, "C2", << 3 >>),
    C2Field(3, "C2", << 3 >>) >>

c4_fields == <<
    C4Field(0, "unram", << >>, "*"),
    C4Field(4, "C2", << 2 >>, "*"),
    C4Field(6, "C2", << 3 >>, "*"),
    C4Field(6, "C2", << 3 >>, "*"),
    C4Field(11, "C4", << 3, 4 >>, "2"),
    C4Field(11, "C4", << 3, 4 >>, "2"),
    C4Field(11, "C4", << 3, 4 >>, "2"),
    C4Field(11, "C4", << 3, 4 >>, "2"),
    C4Field(11, "C4", << 3, 4 >>, "2*"),
    C4Field(11, "C4", << 3, 4 >>, "2*"),
    C4Field(11, "C4", << 3, 4 >>, "2*"),
    C4Field(11, "C4", << 3, 4 >>, "2*") >>

v4_fields == <<
    V4Field(4, "C2", << 2 >>),
    V4Field(6, "C2", << 3 >>),
    V4Field(6, "C2", << 3 >>),
    V4Field(8, "V4", << 2, 3 >>),
    V4Field(8, "V4", << 2, 3 >>),
    V4Field(8, "V4", << 2, 3 >>),
    V4Field(8, "V4", << 2, 3 >>) >>

d4_fields == <<
    D4Field(4, "V4", "*"),
    D4Field(4, "V4", "*"),
    D4Field(6, "V4", "*"),
    D4Field(6, "V4", "*"),
    D4Field(6, "V4", "-1"),
    D4Field(6, "V4", "-*"),
    D4Field(8, "V4", "-*"),
    D4Field(8, "V4", "-1"),
    D4Field(9, "D4", "-1"),
    D4Field(9, "D4", "-1"),
    D4Field(9, "D4", "-1"),
    D4Field(9, "D4", "-1"),
    D4Field(9, "D4", "-*"),
    D4Field(9, "D4", "-*"),
    D4Field(9, "D4", "-*"),
    D4Field(9, "D4", "-*"),
    D4Field(10, "D4", "2*"),
    D4Field(10, "D4", "2"),
    D4Field(10, "D4", "2"),
    D4Field(10, "D4", "2*"),
    D4Field(10, "D4", "-2*"),
    D4Field(10, "D4", "-2*"),
    D4Field(10, "D4", "-2"),
    D4Field(10, "D4", "-2"),
    D4Field(11, "D4", "-2"),
    D4Field(11, "D4", "-2"),
    D4Field(11, "D4", "-2*"),
    D4Field(11, "D4", "-2*"),
    D4Field(11, "C4", "-2*"),
    D4Field(11, "C4", "2*"),
    D4Field(11, "D4", "2"),
    D4Field(11, "D4", "2"),
    D4Field(11, "C4", "-2"),
    D4Field(11, "C4", "-2"),
    D4Field(11, "D4", "2*"),
    D4Field(11, "D4", "2*") >>

\* ch in disc, for a single character ch
Contains(disc, ch) == \E k \in 1..Len(disc) : SubSeq(disc, k, k) = ch

\* get_quad_disc with the test for "-" made before the test for "2"
get_quad_disc_minus_first(disc) ==
    IF disc = "*" THEN 0
    ELSE IF Contains(disc, "-") THEN 2
    ELSE 3

\* get_quad_disc: 0 for "*", 3 when "2" occurs, else 2 (then "-" must occur)
get_quad_disc(disc) ==
    IF disc = "*" THEN 0
    ELSE IF Contains(disc, "2") THEN 3
    ELSE 2

\* get_quad_disc's `assert "-" in disc` fails
get_quad_disc_asserts(disc) ==
    disc # "*" /\ ~Contains(disc, "2") /\ ~Contains(disc, "-")

\* slopes[-1]
LastOf(sl) == sl[Len(sl)]

do_unram_fields == << <<0, 0, 8>> >>

\* What do_c2_fields adds for one field
c2_entries(field) ==
    IF field.inertia # "unram"
    THEN << <<0, field.c, 2>>, <<field.c, field.c, 2>>, <<0, 2 * field.c, 1>> >>
    ELSE << >>

\* What do_c4_fields adds for one field
c4_entries(field) ==
    IF field.inertia = "unram" THEN << >>
    ELSE IF field.inertia = "C2" THEN << <<0, field.c, 2>> >>
    ELSE << << get_quad_disc(field.deg2_subfield), 2 * LastOf(field.slopes), 2 >> >>

\* What do_v4_fields adds for one field whose inertia is C2 or V4
v4_entries(field) ==
    IF field.inertia = "C2"
    THEN << <<0, LastOf(field.slopes), 4>>,
            <<0, 2 * LastOf(field.slopes), 2>>,
            <<LastOf(field.slopes), LastOf(field.slopes), 4>>,
            <<0, 2 * LastOf(field.slopes), 2>> >>
    ELSE << <<0, 2 * field.slopes[1] + (field.slopes[2] - field.slopes[1]), 4>>,
            <<0, 2 * field.slopes[2], 2>>,
            <<3, 2 * field.slopes[1] + (field.slopes[2] - field.slopes[1]), 4>>,
            <<2, 2 * field.slopes[2], 2>> >>

\* do_d4_fields with the conductor c in place of c - d
d4_entries_no_minus(field) ==
    << << get_quad_disc(field.deg2_subfield), field.c, 4 >> >>

\* What do_d4_fields adds for one field
d4_entries(field) ==
    << << get_quad_disc(field.deg2_subfield),
          field.c - get_quad_disc(field.deg2_subfield), 4 >> >>

RECURSIVE do_c2_loop(_)
do_c2_loop(fields) ==
    IF fields = << >> THEN << >>
    ELSE c2_entries(Head(fields)) \o do_c2_loop(Tail(fields))

RECURSIVE do_c4_loop(_)
do_c4_loop(fields) ==
    IF fields = << >> THEN << >>
    ELSE c4_entries(Head(fields)) \o do_c4_loop(Tail(fields))

RECURSIVE do_v4_loop(_)
do_v4_loop(fields) ==
    IF fields = << >> THEN << >>
    ELSE v4_entries(Head(fields)) \o do_v4_loop(Tail(fields))

RECURSIVE do_d4_loop(_)
do_d4_loop(fields) ==
    IF fields = << >> THEN << >>
    ELSE d4_entries(Head(fields)) \o do_d4_loop(Tail(fields))

do_c2_fields == do_c2_loop(c2_fields)
do_c4_fields == do_c4_loop(c4_fields)
do_v4_fields == do_v4_loop(v4_fields)
do_d4_fields == do_d4_loop(d4_fields)

\* The tuple of functions compute() goes through
NumFuncs == 5

\* func() for the func_num-th function
FuncOutput(n) ==
    CASE n = 1 -> do_unram_fields
      [] n = 2 -> do_c2_fields
      [] n = 3 -> do_c4_fields
      [] n = 4 -> do_v4_fields
      [] n = 5 -> do_d4_fields

\* func() raises: do_v4_fields' `raise Exception("Not possible")`, or the
\* assertion of get_quad_disc where do_c4_fields and do_d4_fields call it
FuncRaises(n) ==
    CASE n = 3 -> \E k \in 1..Len(c4_fields) :
                      /\ c4_fields[k].inertia \notin { "unram", "C2" }
                      /\ get_quad_disc_asserts(c4_fields[k].deg2_subfield)
      [] n = 4 -> \E k \in 1..Len(v4_fields) :
                      v4_fields[k].inertia \notin { "C2", "V4" }
      [] n = 5 -> \E k \in 1..Len(d4_fields) :
                      get_quad_disc_asserts(d4_fields[k].deg2_subfield)
      [] OTHER -> FALSE

\* outcomes[key] += count on a defaultdict(int)
AddTo(dict, key, count) ==
    IF key \in DOMAIN dict
    THEN [dict EXCEPT ![key] = @ + count]
    ELSE [ k \in DOMAIN dict \cup {key} |-> IF k = key THEN count ELSE dict[k] ]

\* outcomes[key] read for each key of keys: a defaultdict enters 0 for a
\* key it does not hold
ReadAll(dict, keys) ==
    [ k \in DOMAIN dict \cup keys |-> IF k \in DOMAIN dict THEN dict[k] ELSE 0 ]

\* The keys expectation_command prints
PrintedKeys ==
    { <<0, q>> : q \in {0, 2, 3, 4, 5, 6} }
        \cup { <<2, q>> : q \in {0, 2, 4, 5} }
        \cup { <<3, q>> : q \in {0, 2, 4, 5} }

\* The keys print_table reads
TableKeys == { <<d, q>> : d \in {0, 2, 3}, q \in {0, 2, 3, 4, 5, 6} }

\* compute(): `for func in (...)`: func() is called and the inner loop starts
CallFunc ==
    /\ pc = "call"
    /\ IF FuncRaises(func_num)
       THEN /\ pc' = "raised"
            /\ UNCHANGED << output, idx >>
       ELSE /\ output' = FuncOutput(func_num)
            /\ idx' = 1
            /\ pc' = "loop"
    /\ UNCHANGED << func_num, outcomes >>
    /\ UNCHANGED splitting_vars

\* One iteration of `for (d, cond, count) in func()`
Accumulate ==
    /\ pc = "loop"
    /\ idx <= Len(output)
    /\ LET d == output[idx][1]
           cond == output[idx][2]
           count == output[idx][3]
       IN  IF cond - d >= 0
           THEN /\ outcomes' = AddTo(outcomes, << d, cond - d >>, count)
                /\ idx' = idx + 1
                /\ pc' = "loop"
           ELSE /\ pc' = "AssertionError"
                /\ UNCHANGED << outcomes, idx >>
    /\ UNCHANGED << func_num, output >>
    /\ UNCHANGED splitting_vars

\* The inner loop is exhausted: the next function, or `return outcomes`
FuncDone ==
    /\ pc = "loop"
    /\ idx > Len(output)
    /\ IF func_num < NumFuncs
       THEN /\ func_num' = func_num + 1
            /\ pc' = "call"
       ELSE /\ pc' = "returned"
            /\ UNCHANGED func_num
    /\ UNCHANGED << output, idx, outcomes >>
    /\ UNCHANGED splitting_vars

\* expectation_command: assert len(outcomes) == 14, then the 14 values are
\* read and printed
PrintOutcomes ==
    /\ pc = "returned"
    /\ IF Cardinality(DOMAIN outcomes) = 14
       THEN /\ outcomes' = ReadAll(outcomes, PrintedKeys)
            /\ pc' = "printed"
       ELSE /\ pc' = "AssertionError"
            /\ UNCHANGED outcomes
    /\ UNCHANGED << func_num, output, idx >>
    /\ UNCHANGED splitting_vars

\* expected_number.print_table(outcomes) reads all 18 cells
PrintTable ==
    /\ pc = "printed"
    /\ outcomes' = ReadAll(outcomes, TableKeys)
    /\ pc' = "done"
    /\ UNCHANGED << func_num, output, idx >>
    /\ UNCHANGED splitting_vars

InitExpectation ==
    /\ pc = "call"
    /\ ExpectationIdle
    /\ row_num = 0
    /\ gal_num = 1
    /\ big_galois = D4
    /\ galois_group = Gal_M_M
    /\ decomposition_group = Gal_M_M
    /\ inertia_group = Gal_M_M
    /\ cosets = {}
    /\ orbits = {}
    /\ todo = {}
    /\ inertia = << >>
    /\ passed = << >>
    /\ out = ""
    /\ to_print = << >>

NextExpectation ==
    \/ CallFunc
    \/ Accumulate
    \/ FuncDone
    \/ PrintOutcomes
    \/ PrintTable

SpecExpectation == InitExpectation /\ [][NextExpectation]_vars

-----------------------------------------------------------------------------
(* Properties *)

Order(G) == Cardinality(Elems(G))

PairwiseDisjoint(S) == \A a, b \in S : a # b => a \cap b = {}

HaveCosets == pc \in { "have_cosets", "have_orbits", "in_compute_inertia",
                       "have_inertia", "written" }

HaveOrbits == pc \in { "have_orbits", "in_compute_inertia", "have_inertia", "written" }

\* C1: for G = D4 and every subgroup H of the catalogue, get_cosets(G, H) is a
\* partition of G: the cosets are pairwise disjoint, their union is G, each has
\* |H| elements and there are |G|/|H| of them.
C1_CosetsPartitionD4 ==
    (HaveCosets /\ big_galois = D4) =>
        /\ PairwiseDisjoint(cosets)
        /\ UNION cosets = Elems(D4)
        /\ \A c \in cosets : Cardinality(c) = Order(galois_group)
        /\ Order(D4) % Order(galois_group) = 0
        /\ Cardinality(cosets) = Order(D4) \div Order(galois_group)

\* The cosets of <tau, sigma^2> in D4 have been computed: two cosets of four
C1_Witness ==
    /\ pc = "have_cosets"
    /\ big_galois = D4
    /\ galois_group = Gal_M_K1
    /\ Cardinality(cosets) = 2

\* C2: for every group G of the catalogue, get_cosets(G, {identity}) is the set
\* of the |G| singletons {g}, g in G.
C2_TrivialSubgroupSingletons ==
    (HaveCosets /\ galois_group = Gal_M_M) =>
        /\ cosets = { {g} : g \in Elems(big_galois) }
        /\ Cardinality(cosets) = Order(big_galois)

\* The cosets of the trivial group in <sigma> have been computed
C2_Witness ==
    /\ pc = "have_cosets"
    /\ big_galois = Gal_M_K
    /\ galois_group = Gal_M_M
    /\ Cardinality(cosets) = 4

\* C3: for every group G of the catalogue, get_cosets(G, G) holds exactly one
\* coset, the set of all elements of G.
C3_WholeGroupOneCoset ==
    (HaveCosets /\ galois_group = big_galois) =>
        /\ Cardinality(cosets) = 1
        /\ cosets = { Elems(big_galois) }

\* The cosets of <sigma> in <sigma> have been computed
C3_Witness ==
    /\ pc = "have_cosets"
    /\ big_galois = Gal_M_K
    /\ galois_group = Gal_M_K
    /\ \E c \in cosets : Cardinality(c) = 4

\* C4: for all subgroups H and K of the catalogue, get_orbits(get_cosets(D4, H), K)
\* partitions the coset set: every orbit is a non-empty subset of the cosets,
\* distinct orbits are disjoint, every coset lies in exactly one orbit, which is
\* the orbit computed from it, and the size of every orbit divides |K|.
C4_OrbitsPartitionCosets ==
    (HaveOrbits /\ big_galois = D4) =>
        /\ \A o \in orbits : o # {} /\ o \subseteq cosets
        /\ PairwiseDisjoint(orbits)
        /\ \A c \in cosets :
             /\ Cardinality({ o \in orbits : c \in o }) = 1
             /\ \E o \in orbits :
                  /\ c \in o
                  /\ \A d \in cosets :
                       d \in o <=> \E g \in Elems(decomposition_group) :
                                      d = { Mul(h, g) : h \in c }
        /\ \A o \in orbits : Order(decomposition_group) % Cardinality(o) = 0

\* <tau, sigma^2> has acted on the four cosets of <tau>: two orbits of two
C4_Witness ==
    /\ pc = "have_orbits"
    /\ big_galois = D4
    /\ galois_group = Gal_M_L1
    /\ decomposition_group = Gal_M_K1
    /\ Cardinality(cosets) = 4
    /\ Cardinality(orbits) = 2
    /\ \A o \in orbits : Cardinality(o) = 2

\* C5: for any finite set `cosets` of sets of permutations,
\* get_orbits(cosets, {identity}) is the set of the |cosets| singletons {c},
\* c in cosets: no two points are merged.
C5_TrivialActionSingletons ==
    (pc = "have_orbits" /\ decomposition_group = Gal_M_M) =>
        /\ orbits = { {c} : c \in cosets }
        /\ Cardinality(orbits) = Cardinality(cosets)

\* The trivial group has acted on two points that have an element in common
C5_Witness ==
    /\ pc = "have_orbits"
    /\ decomposition_group = Gal_M_M
    /\ Cardinality(cosets) = 2
    /\ Cardinality(orbits) = 2
    /\ \E c, d \in cosets : c # d /\ c \cap d # {}

\* C6: with K = <sigma> and L = <sigma^2>, the formatted signature of
\* get_cosets(D4, H) is "(2^2)" both for H = <tau> and for H = <sigma tau>.
C6_TauSignature ==
    ( /\ pc = "written"
      /\ big_galois = D4
      /\ decomposition_group = Gal_M_K
      /\ inertia_group = Gal_M_L
      /\ galois_group \in { Gal_M_L1, Gal_M_L2 } ) => out = "(2^2)"

\* The pipeline has run for H = <sigma tau>, K = <sigma>, L = <sigma^2>: one
\* orbit, two sub-orbits of two cosets
C6_Witness ==
    /\ pc = "written"
    /\ big_galois = D4
    /\ decomposition_group = Gal_M_K
    /\ inertia_group = Gal_M_L
    /\ galois_group = Gal_M_L2
    /\ Cardinality(orbits) = 1
    /\ passed = << <<2, 2>> >>

\* C7: with K = <sigma> and L = <sigma^2> and H = L, the formatted signature is
\* "(2 2)": two decomposition orbits, each with f = 2 and e = 1.
C7_CentreSignature ==
    ( /\ pc = "written"
      /\ big_galois = D4
      /\ decomposition_group = Gal_M_K
      /\ inertia_group = Gal_M_L
      /\ galois_group = Gal_M_L ) => ( /\ out = "(2 2)"
                                       /\ passed = << <<2, 1>>, <<2, 1>> >> )

\* The pipeline has run for H = L = <sigma^2>, K = <sigma>: two orbits
C7_Witness ==
    /\ pc = "written"
    /\ big_galois = D4
    /\ decomposition_group = Gal_M_K
    /\ inertia_group = Gal_M_L
    /\ galois_group = Gal_M_L
    /\ Cardinality(orbits) = 2

\* The order the claim asks for: ascending f, ties by descending e
C8_Before(a, b) == a[1] < b[1] \/ (a[1] = b[1] /\ a[2] > b[2])

\* The list s in that order: the pair x stands at the positions after the pairs
\* that come before it
C8_Ordered(s) ==
    [ k \in 1..Len(s) |->
        CHOOSE x \in { s[i] : i \in 1..Len(s) } :
            LET before == Cardinality({ i \in 1..Len(s) : C8_Before(s[i], x) })
                same == Cardinality({ i \in 1..Len(s) : s[i] = x })
            IN  before < k /\ k <= before + same ]

\* "f^e" when e > 1, "f" when e = 1
C8_Rendered(x) ==
    IF x[2] = 1 THEN ToString(x[1]) ELSE ToString(x[1]) \o "^" \o ToString(x[2])

\* The pairs of s from position k on, each but the first of the list behind a space
RECURSIVE C8_Text(_, _)
C8_Text(s, k) ==
    IF k > Len(s) THEN ""
    ELSE (IF k > 1 THEN " " ELSE "") \o C8_Rendered(s[k]) \o C8_Text(s, k + 1)

\* C8: write_inertia returns the pairs by ascending f, ties by descending e, each
\* as "f^e" when e > 1 and "f" when e = 1, joined by single spaces, in one pair
\* of parentheses; [(2,1),(2,3),(1,2),(1,1)] gives "(1^2 1 2^3 2)", [] gives "()".
C8_WriteInertiaFormat ==
    pc = "written" =>
        /\ out = "(" \o C8_Text(C8_Ordered(passed), 1) \o ")"
        /\ passed = DocExample => out = "(1^2 1 2^3 2)"
        /\ passed = << >> => out = "()"

\* write_inertia has returned for the list of its docstring
C8_Witness ==
    /\ pc = "written"
    /\ passed = << <<2, 1>>, <<2, 3>>, <<1, 2>>, <<1, 1>> >>
    /\ out = "(1^2 1 2^3 2)"

RECURSIVE SumFE(_)
SumFE(s) == IF s = << >> THEN 0 ELSE s[1][1] * s[1][2] + SumFE(Tail(s))

\* C9: for every row of the table and every H of gal_groups, the signature has
\* one pair per decomposition orbit and the sum of f*e over its pairs is the
\* number of cosets, |D4|/|H|.
C9_SignatureSum ==
    pc = "have_inertia" =>
        /\ Len(inertia) = Cardinality(orbits)
        /\ SumFE(inertia) = Cardinality(cosets)
        /\ Cardinality(cosets) * Order(galois_group) = Order(D4)

\* Row 12 (I = <sigma^2>, D = <tau, sigma^2>), H trivial: two orbits of four
\* cosets, each of two sub-orbits of two
C9_Witness ==
    /\ pc = "have_inertia"
    /\ row_num = 12
    /\ galois_group = Gal_M_M
    /\ Cardinality(cosets) = 8
    /\ inertia = << <<2, 2>>, <<2, 2>> >>

\* C10: write_inertia leaves its argument unchanged: after it returns, the
\* caller's list holds the same pairs in the same order as before the call.
C10_ArgumentUnchanged == pc = "written" => inertia = passed

\* The number of positions of the list s that hold the pair x
CountOf(s, x) == Cardinality({ i \in 1..Len(s) : s[i] = x })

\* The sizes of the sub-orbits of the orbit O under the group I
SubOrbitSizes(O, I) == { Cardinality(sub) : sub \in get_orbits(O, I) }

\* One fixed answer for the orbit O: its number of sub-orbits and the size of
\* the smallest of them
FixedPair(O, I) ==
    << Cardinality(get_orbits(O, I)),
       CHOOSE n \in SubOrbitSizes(O, I) : \A m \in SubOrbitSizes(O, I) : n <= m >>

\* The list s holds, in some order, exactly the fixed answers of the orbits os
IsFixedSignature(s, os, I) ==
    /\ Len(s) = Cardinality(os)
    /\ \A O \in os : CountOf(s, FixedPair(O, I)) =
                     Cardinality({ P \in os : FixedPair(P, I) = FixedPair(O, I) })

\* d * i * d^-1 lies in I for every d in D and i in I
IsNormalIn(I, D) ==
    \A d \in Elems(D), i \in Elems(I) :
        \E c \in Elems(I) : Mul(d, i) = Mul(c, d)

\* C11 as stated: for every triple (H, D, I) of the catalogue, every run of
\* compute_inertia returns the same collection of pairs up to reordering,
\* whatever order the sets are iterated in.
C11_SameSignatureEveryRun ==
    (pc = "have_inertia" /\ big_galois = D4) =>
        IsFixedSignature(inertia, orbits, inertia_group)

\* C11 as amended: the same for the triples whose inertia group is normal in
\* the decomposition group, as in all rows of the table.
C11_SameSignatureWhenNormal ==
    ( /\ pc = "have_inertia"
      /\ big_galois = D4
      /\ IsNormalIn(inertia_group, decomposition_group) ) =>
        IsFixedSignature(inertia, orbits, inertia_group)

\* compute_inertia has returned for H = <tau>, D = <tau, sigma^2>, I = <tau>:
\* two orbits, and I acts differently on them
C11_Witness ==
    /\ pc = "have_inertia"
    /\ big_galois = D4
    /\ galois_group = Gal_M_L1
    /\ decomposition_group = Gal_M_K1
    /\ inertia_group = Gal_M_L1
    /\ IsNormalIn(inertia_group, decomposition_group)
    /\ inertia = << <<2, 1>>, <<1, 2>> >>

\* C12: for every row of the table and every H of gal_groups, within each
\* decomposition orbit O all sub-orbits under I have the same cardinality e,
\* whichever is picked, and (number of sub-orbits) * e = |O|.
C12_EqualSubOrbits ==
    HaveOrbits =>
        /\ \A O \in orbits :
             \A sub \in get_orbits(O, inertia_group) :
                 Cardinality(get_orbits(O, inertia_group)) * Cardinality(sub)
                     = Cardinality(O)
        /\ \A O \in orbits : Cardinality(SubOrbitSizes(O, inertia_group)) = 1
        /\ \A i \in 1..Len(inertia) :
             pc \in { "in_compute_inertia", "have_inertia" } =>
                 \E O \in orbits : inertia[i][1] * inertia[i][2] = Cardinality(O)

\* Row 6 (I = <tau>, D = <tau, sigma^2>), H trivial: two orbits of four cosets,
\* each of two sub-orbits of two
C12_Witness ==
    /\ pc = "have_inertia"
    /\ row_num = 6
    /\ galois_group = Gal_M_M
    /\ Cardinality(orbits) = 2
    /\ inertia = << <<2, 2>>, <<2, 2>> >>

\* Some decomposition orbit has sub-orbits of different sizes
Inconsistent == \E O \in orbits : Cardinality(SubOrbitSizes(O, inertia_group)) > 1

\* C13 as stated: when the sub-orbits of a decomposition orbit differ in size,
\* compute_inertia reports an error: it does not return a signature.
C13_ErrorReported == ~(pc = "have_inertia" /\ Inconsistent)

\* C13 as amended: compute_inertia makes no check.  It returns one pair per
\* orbit, also when sub-orbits differ in size: the number of sub-orbits and the
\* size of one of them; for H = <tau>, D = D4, I = <tau> that is (3, 1) or (3, 2).
C13_PairEmittedUnchecked ==
    pc = "have_inertia" =>
        /\ Len(inertia) = Cardinality(orbits)
        /\ \A i \in 1..Len(inertia) :
             \E O \in orbits :
                 /\ inertia[i][1] = Cardinality(get_orbits(O, inertia_group))
                 /\ inertia[i][2] \in SubOrbitSizes(O, inertia_group)
        /\ ( /\ big_galois = D4
             /\ galois_group = Gal_M_L1
             /\ decomposition_group = D4
             /\ inertia_group = Gal_M_L1 ) =>
                 inertia \in { << <<3, 1>> >>, << <<3, 2>> >> }

\* compute_inertia has returned (3, 2) for H = <tau>, D = D4, I = <tau>, whose
\* sub-orbits have the sizes 1, 1 and 2
C13_Witness ==
    /\ pc = "have_inertia"
    /\ big_galois = D4
    /\ galois_group = Gal_M_L1
    /\ decomposition_group = D4
    /\ inertia_group = Gal_M_L1
    /\ Inconsistent
    /\ inertia = << <<3, 2>> >>

\* The image of the point c under g, as get_orbits computes it
Image(c, g) == { Mul(h, g) : h \in c }

\* C14: the action of get_orbits is well defined on the cosets of get_cosets:
\* for every subgroup H of the catalogue, every coset c of get_cosets(D4, H) and
\* every g of D4, the image {h*g : h in c} is again one of the cosets.  So the
\* coset set is closed under every decomposition group, and in the nested call
\* of compute_inertia each decomposition orbit is closed under the inertia
\* group, which lies in the decomposition group in every row of the table.
C14_ActionClosed ==
    /\ (HaveCosets /\ big_galois = D4) =>
          \A c \in cosets : \A g \in Elems(D4) : Image(c, g) \in cosets
    /\ (HaveOrbits /\ big_galois = D4) =>
          /\ \A c \in cosets : \A g \in Elems(decomposition_group) :
                 Image(c, g) \in cosets
          /\ \A O \in orbits : \A c \in O : \A g \in Elems(inertia_group) :
                 Image(c, g) \in O
    /\ \A r \in 1..Len(inertia_groups) :
          /\ IsSubset(inertia_groups[r], decomposition_groups[r])
          /\ IsSubset(decomposition_groups[r], D4)

\* <sigma> has acted on the four cosets of <sigma tau>, which is not normal in
\* D4, and <sigma^2> is about to act on the one orbit
C14_Witness ==
    /\ pc = "in_compute_inertia"
    /\ big_galois = D4
    /\ galois_group = Gal_M_L2
    /\ decomposition_group = Gal_M_K
    /\ inertia_group = Gal_M_L
    /\ Cardinality(cosets) = 4
    /\ todo = orbits
    /\ ~IsNormalIn(galois_group, D4)

\* The inverse permutation: the image of p[j] is j
Inverse(p) == [ i \in 1..Size |-> (CHOOSE j \in 1..Size : p[j] = i - 1) - 1 ]

\* G holds the identity and is closed under the product and under inverses
IsGroup(G) ==
    /\ iota \in Elems(G)
    /\ \A a, b \in Elems(G) : Mul(a, b) \in Elems(G)
    /\ \A a \in Elems(G) : Inverse(a) \in Elems(G) /\ Mul(a, Inverse(a)) = iota

\* C15: the group data of the CLI meets the preconditions the core does not
\* check: D4 is 8 pairwise distinct permutations, D4 and every subgroup of the
\* catalogue hold the identity and are closed under product and inverses, and
\* in each of the 18 rows the inertia group is a subset of the decomposition
\* group and normal in it (d*i*d^-1 in I for all d in D, i in I).
C15_GroupDataValid ==
    /\ big_galois = D4
    /\ Len(big_galois.group) = 8
    /\ Cardinality(Elems(big_galois)) = 8
    /\ \A G \in Catalogue : IsGroup(G) /\ IsSubset(G, D4)
    /\ galois_group \in Catalogue
    /\ Len(inertia_groups) = 18
    /\ Len(decomposition_groups) = 18
    /\ inertia_group = inertia_groups[row_num + 1]
    /\ decomposition_group = decomposition_groups[row_num + 1]
    /\ inertia_group \in Catalogue
    /\ decomposition_group \in Catalogue
    /\ IsSubset(inertia_group, decomposition_group)
    /\ \A d \in Elems(decomposition_group), i \in Elems(inertia_group) :
           Mul(Mul(d, i), Inverse(d)) \in Elems(inertia_group)

\* Row 10 is being computed: <sigma> as inertia group in D4, which is not abelian
C15_Witness ==
    /\ pc = "have_orbits"
    /\ row_num = 10
    /\ inertia_group = Gal_M_K
    /\ decomposition_group = D4
    /\ \E d, i \in Elems(D4) : Mul(d, i) # Mul(i, d)

\* (I, D) is one of the 18 rows of the table
IsRow(I, D) ==
    \E r \in 1..Len(inertia_groups) :
        inertia_groups[r] = I /\ decomposition_groups[r] = D

\* The fixed answers of the orbits os, taken in one fixed order
RECURSIVE FixedSignature(_, _)
FixedSignature(os, I) ==
    IF os = {} THEN << >>
    ELSE LET O == CHOOSE P \in os : TRUE
         IN  Append(FixedSignature(os \ {O}, I), FixedPair(O, I))

\* The cell of the table for the subgroup H in the row (I, D)
Cell(H, D, I) == write_inertia(FixedSignature(get_orbits(get_cosets(D4, H), D), I))

\* C16: leaving the conjugate subgroups out of the table loses nothing: in each
\* of the 18 rows the formatted signature of H = <sigma^2 tau> is that of
\* H = <tau>, and the one of H = <sigma^3 tau> is that of H = <sigma tau>.
C16_ConjugatesSameCell ==
    ( /\ pc = "written"
      /\ big_galois = D4
      /\ IsRow(inertia_group, decomposition_group) ) =>
        /\ galois_group \in { Gal_M_L1, Gal_M_L1_prime } =>
               out = Cell(Gal_M_L1, decomposition_group, inertia_group)
        /\ galois_group \in { Gal_M_L2, Gal_M_L2_prime } =>
               out = Cell(Gal_M_L2, decomposition_group, inertia_group)

\* The cell of <sigma^2 tau> has been computed for the row (<tau>, <tau, sigma^2>)
\* and is not that of the conjugate-free subgroup <sigma^2>
C16_Witness ==
    /\ pc = "written"
    /\ big_galois = D4
    /\ galois_group = Gal_M_L1_prime
    /\ decomposition_group = Gal_M_K1
    /\ inertia_group = Gal_M_L1
    /\ IsRow(inertia_group, decomposition_group)
    /\ out = "(1^2 2)"
    /\ out # Cell(Gal_M_L, decomposition_group, inertia_group)

\* The lists that hold the pairs of s in another order
Rearrangements(s) ==
    { [ i \in 1..Len(s) |-> s[q[i]] ] :
        q \in { f \in [1..Len(s) -> 1..Len(s)] :
                  \A i, j \in 1..Len(s) : i # j => f[i] # f[j] } }

\* C17: write_inertia depends only on the multiset of the pairs: for two lists
\* that are permutations of each other it returns the same string.
C17_OrderIndependent ==
    pc = "written" =>
        \A t \in Rearrangements(passed) : write_inertia(t) = out

\* write_inertia has returned for a list that is not in the order of the output
C17_Witness ==
    /\ pc = "written"
    /\ passed = << <<2, 1>>, <<1, 1>>, <<2, 3>> >>
    /\ out = "(1 2^3 2)"
    /\ Cardinality(Rearrangements(passed)) = 6

\* The string t holds the character ch
HasChar(t, ch) == \E k \in 1..Len(t) : SubSeq(t, k, k) = ch

\* C18: in the five rows labelled Unramified (trivial inertia group), for every
\* H of gal_groups every pair has e = 1 and f the size of its decomposition
\* orbit, so the string holds no '^'; and in every row whose inertia group is
\* the decomposition group every pair has f = 1.
C18_UnramifiedAndTotal ==
    /\ row_num \in 0..4 <=> inertia_group = Gal_M_M
    /\ (pc \in { "have_inertia", "written" } /\ row_num \in 0..4) =>
          /\ \A i \in 1..Len(inertia) : inertia[i][2] = 1
          /\ \A n \in 1..Order(D4) :
                 Cardinality({ i \in 1..Len(inertia) : inertia[i][1] = n })
                     = Cardinality({ O \in orbits : Cardinality(O) = n })
    /\ (pc = "written" /\ row_num \in 0..4) => ~HasChar(out, "^")
    /\ (pc \in { "have_inertia", "written" } /\ inertia_group = decomposition_group) =>
          \A i \in 1..Len(inertia) : inertia[i][1] = 1

\* Row 4 (unramified, D = <sigma>), H = <tau>: one orbit of four cosets
C18_Witness ==
    /\ pc = "written"
    /\ row_num = 4
    /\ inertia_group = Gal_M_M
    /\ galois_group = Gal_M_L1
    /\ passed = << <<4, 1>> >>
    /\ out = "(4)"

\* C19: compute() never trips its assertion: every emitted triple
\* (d, cond, count) has cond - d >= 0; and it returns exactly the 14 keys
\* (0,q), q in {0,2,3,4,5,6}, (2,q) and (3,q), q in {0,2,4,5}, those the
\* command reads after asserting len(outcomes) == 14.
C19_FourteenKeys ==
    /\ pc \notin { "AssertionError", "raised" }
    /\ pc = "loop" => \A k \in 1..Len(output) : output[k][2] - output[k][1] >= 0
    /\ pc \in { "returned", "printed" } =>
          /\ Cardinality(DOMAIN outcomes) = 14
          /\ DOMAIN outcomes =
                { <<0, 0>>, <<0, 2>>, <<0, 3>>, <<0, 4>>, <<0, 5>>, <<0, 6>>,
                  <<2, 0>>, <<2, 2>>, <<2, 4>>, <<2, 5>>,
                  <<3, 0>>, <<3, 2>>, <<3, 4>>, <<3, 5>> }
          /\ DOMAIN outcomes = PrintedKeys
          /\ \A key \in DOMAIN outcomes : outcomes[key] > 0

\* compute() has returned after all five functions and the command has
\* printed the 14 values
C19_Witness ==
    /\ pc = "printed"
    /\ func_num = 5
    /\ Len(output) = 36
    /\ idx = 37
    /\ outcomes[<<0, 0>>] = 8
    /\ outcomes[<<3, 5>>] = 64
    /\ Cardinality(DOMAIN outcomes) = 14

====
